---- MODULE Spec2Model ----
(***************************************************************************)
(* Cookie Clicker simulator (src/cookie_clicker.py): the ClickerState      *)
(* class, the simulate_clicker driver and the strategy functions.          *)
(*                                                                         *)
(* Quantities the program keeps as floats (cookies, time, cps, costs) are  *)
(* modelled as integers: arithmetic is exact, and a comparison against a   *)
(* true quotient a / b (b > 0) is carried out by cross-multiplication.     *)
(* The catalog class (poc_clicker_provided.BuildInfo) is imported by the   *)
(* program and is not part of its source; it is modelled from the          *)
(* catalog section of the specification.                                   *)
(***************************************************************************)
EXTENDS Integers, Sequences, FiniteSets, TLC

VARIABLES
    pc,            \* position in simulate_clicker, or the mode of the harness
    cso,           \* the ClickerState object
    build_info,    \* the catalog handed in by the caller
    info,          \* build_info_clone, the working catalog of the run
    duration,      \* the horizon
    strategy,      \* which strategy function the run was given
    next_purchase, \* the last decision returned by a strategy call
    ret            \* the last direct call of a ClickerState method and its outcome

vars == <<pc, cso, build_info, info, duration, strategy, next_purchase, ret>>

\* ------------------------------------------------------------------ bounds
MaxCost == 2        \* base cost of an item: 0..MaxCost
MaxCps == 2         \* cps contribution of an item: 1..MaxCps
MaxGrowth == 2      \* growth factor of an item: 1..MaxGrowth
MaxDuration == 2    \* horizon: -1..MaxDuration
MaxHist == 6        \* a run is followed until its history holds MaxHist entries
MaxApiTime == 2     \* cap on the clock when ClickerState is driven directly
MaxApiWait == 2     \* argument of a direct wait call: -1..MaxApiWait
MaxApiHist == 3     \* cap on the history when ClickerState is driven directly
MaxCookies == 3     \* balance handed to a strategy called directly: 0..MaxCookies
MaxRate == 3        \* cps handed to a strategy called directly: 1..MaxRate
MaxCpsLoss == 2     \* rate increase of a direct buy_item call: -MaxCpsLoss..MaxCps
MaxTarget == 3      \* argument of a direct time_until call: 0..MaxTarget

None == "None"
NoDecision == "NoDecision"
ItemNames == {"Cursor", "Grandma"}

\* a direct call: the method, its numeric argument (time, cost or cookies),
\* the value returned, and whether the call raised an exception
Call(op, arg, value, raised) == [op |-> op, arg |-> arg, value |-> value, raised |-> raised]

NoCall == Call("none", 0, 0, FALSE)

\* ----------------------------------------------------------------- catalog
\* A catalog: the stable item order, and per item cost, cps and growth factor.
Orders == { <<"Cursor">>, <<"Cursor", "Grandma">> }

Range(s) == { s[i] : i \in 1..Len(s) }

Catalogs ==
    UNION { [order : {o},
             cost : [Range(o) -> 0..MaxCost],
             cps : [Range(o) -> 1..MaxCps],
             growth : [Range(o) -> 1..MaxGrowth]] : o \in Orders }

build_items(bi) == bi.order

get_cost(bi, item) == bi.cost[item]

get_cps(bi, item) == bi.cps[item]

update_item(bi, item) == [bi EXCEPT !.cost[item] = @ * bi.growth[item]]

clone(bi) == bi

\* ------------------------------------------------------------ ClickerState
ClickerStateInit ==
    [total_cookies |-> 0,
     current_cookies |-> 0,
     current_time |-> 0,
     cps |-> 1,
     history |-> << <<0, None, 0, 0>> >>]

get_cookies(s) == s.current_cookies

get_time(s) == s.current_time

get_history(s) == s.history

\* math.ceil(a / b) for b # 0
Ceil(a, b) == IF b > 0 THEN -((-a) \div b) ELSE -(a \div (-b))

\* time_until with the affordability test turned around
time_until_FlippedTest(s, cookies) ==
    IF cookies >= get_cookies(s)
    THEN 0
    ELSE Ceil(cookies - get_cookies(s), s.cps)

\* time_until rounding the quotient down instead of up
time_until_Floor(s, cookies) ==
    IF cookies <= get_cookies(s)
    THEN 0
    ELSE IF s.cps > 0
         THEN (cookies - get_cookies(s)) \div s.cps
         ELSE (get_cookies(s) - cookies) \div (-s.cps)

time_until(s, cookies) ==
    IF cookies <= get_cookies(s)
    THEN 0
    ELSE Ceil(cookies - get_cookies(s), s.cps)

\* wait without the test for a non-positive time
wait_NoGuard(s, time) ==
    LET new_cookies == s.cps * time
    IN  [s EXCEPT !.current_time = @ + time,
                  !.current_cookies = @ + new_cookies,
                  !.total_cookies = @ + new_cookies]

wait(s, time) ==
    IF time <= 0
    THEN s
    ELSE LET new_cookies == s.cps * time
         IN  [s EXCEPT !.current_time = @ + time,
                       !.current_cookies = @ + new_cookies,
                       !.total_cookies = @ + new_cookies]

\* buy_item with the affordability test turned around
buy_item_FlippedCheck(s, item_name, cost, additional_cps) ==
    IF cost < get_cookies(s)
    THEN s
    ELSE [s EXCEPT !.current_cookies = @ - cost,
                   !.cps = @ + additional_cps,
                   !.history = Append(@, <<get_time(s), item_name, cost, s.total_cookies>>)]

\* buy_item refusing a cost equal to the balance
buy_item_StrictCheck(s, item_name, cost, additional_cps) ==
    IF cost >= get_cookies(s)
    THEN s
    ELSE [s EXCEPT !.current_cookies = @ - cost,
                   !.cps = @ + additional_cps,
                   !.history = Append(@, <<get_time(s), item_name, cost, s.total_cookies>>)]

\* buy_item without the test for insufficient cookies
buy_item_NoCheck(s, item_name, cost, additional_cps) ==
    [s EXCEPT !.current_cookies = @ - cost,
              !.cps = @ + additional_cps,
              !.history = Append(@, <<get_time(s), item_name, cost, s.total_cookies>>)]

\* buy_item charging the cost to the lifetime total as well
buy_item_ChargesTotal(s, item_name, cost, additional_cps) ==
    IF cost > get_cookies(s)
    THEN s
    ELSE [s EXCEPT !.current_cookies = @ - cost,
                   !.total_cookies = @ - cost,
                   !.cps = @ + additional_cps,
                   !.history = Append(@, <<get_time(s), item_name, cost, s.total_cookies>>)]

\* buy_item putting the new event at the front of the history
buy_item_Prepends(s, item_name, cost, additional_cps) ==
    IF cost > get_cookies(s)
    THEN s
    ELSE [s EXCEPT !.current_cookies = @ - cost,
                   !.cps = @ + additional_cps,
                   !.history = <<<<get_time(s), item_name, cost, s.total_cookies>>>> \o @]

buy_item(s, item_name, cost, additional_cps) ==
    IF cost > get_cookies(s)
    THEN s
    ELSE [s EXCEPT !.current_cookies = @ - cost,
                   !.cps = @ + additional_cps,
                   !.history = Append(@, <<get_time(s), item_name, cost, s.total_cookies>>)]

\* -------------------------------------------------------------- strategies
\* x <= a / b for b > 0, the quotient being the true (float) quotient
LeqQuotient(x, a, b) == x * b <= a

\* sorted(available_items, key=cost)[0]: the sort is stable, so the first
\* entry is the earliest one of lowest cost
FirstCheapest(bi, available) ==
    available[CHOOSE k \in 1..Len(available) :
        \A j \in 1..Len(available) :
            /\ get_cost(bi, available[j]) >= get_cost(bi, available[k])
            /\ j < k => get_cost(bi, available[j]) > get_cost(bi, available[k])]

\* sorted(available_items, key=cost, reverse=True)[0]: reverse keeps the
\* order of equal keys, so the first entry is the earliest one of highest cost
FirstDearest(bi, available) ==
    available[CHOOSE k \in 1..Len(available) :
        \A j \in 1..Len(available) :
            /\ get_cost(bi, available[j]) <= get_cost(bi, available[k])
            /\ j < k => get_cost(bi, available[j]) < get_cost(bi, available[k])]

strategy_cursor_broken(cookies, cps, history, time_left, bi) == "Cursor"

strategy_none(cookies, cps, history, time_left, bi) == None

strategy_cheap(cookies, cps, history, time_left, bi) ==
    LET affordable(item) == LeqQuotient(get_cost(bi, item), time_left, cps)
        available_items == SelectSeq(build_items(bi), affordable)
    IN  IF Len(available_items) = 0
        THEN None
        ELSE FirstCheapest(bi, available_items)

\* strategy_expensive sorting without reverse=True
strategy_expensive_Ascending(cookies, cps, history, time_left, bi) ==
    LET potential_cookies == cookies + (time_left * cps)
        affordable(item) == get_cost(bi, item) <= potential_cookies
        available_items == SelectSeq(build_items(bi), affordable)
    IN  IF Len(available_items) = 0
        THEN None
        ELSE FirstCheapest(bi, available_items)

strategy_expensive(cookies, cps, history, time_left, bi) ==
    LET potential_cookies == cookies + (time_left * cps)
        affordable(item) == get_cost(bi, item) <= potential_cookies
        available_items == SelectSeq(build_items(bi), affordable)
    IN  IF Len(available_items) = 0
        THEN None
        ELSE FirstDearest(bi, available_items)

\* key cost / cps of the item, reverse=True: the earliest item of highest ratio
strategy_best(cookies, cps, history, time_left, bi) ==
    LET items == build_items(bi)
        ratio_less(a, b) == get_cost(bi, a) * get_cps(bi, b) < get_cost(bi, b) * get_cps(bi, a)
    IN  IF Len(items) = 0
        THEN None
        ELSE items[CHOOSE k \in 1..Len(items) :
                 \A j \in 1..Len(items) :
                     /\ ~ratio_less(items[k], items[j])
                     /\ j < k => ratio_less(items[j], items[k])]

\* A caller-supplied strategy that holds back until no time is left and then
\* always names the first item of the catalog.
strategy_at_deadline(cookies, cps, history, time_left, bi) ==
    IF time_left > 0 THEN None ELSE build_items(bi)[1]

Strategies == {"cursor_broken", "none", "cheap", "expensive", "best", "at_deadline", "any"}

\* The decisions the strategy of the run may return on these arguments; "any"
\* stands for an arbitrary caller-supplied function.
Decisions(strat, cookies, cps, history, time_left, bi) ==
    CASE strat = "cursor_broken" -> {strategy_cursor_broken(cookies, cps, history, time_left, bi)}
      [] strat = "none" -> {strategy_none(cookies, cps, history, time_left, bi)}
      [] strat = "cheap" -> {strategy_cheap(cookies, cps, history, time_left, bi)}
      [] strat = "expensive" -> {strategy_expensive(cookies, cps, history, time_left, bi)}
      [] strat = "best" -> {strategy_best(cookies, cps, history, time_left, bi)}
      [] strat = "at_deadline" -> {strategy_at_deadline(cookies, cps, history, time_left, bi)}
      [] OTHER -> Range(build_items(bi)) \cup {None}

\* -------------------------------------------------------- simulate_clicker
\* strategy(cso.get_cookies(), cso.get_cps(), cso.get_history(), time_left, build_info_clone)
Ask == Decisions(strategy, get_cookies(cso), cso.cps, get_history(cso),
                 duration - get_time(cso), info)

Init ==
    /\ pc = "loop"
    /\ build_info \in Catalogs
    /\ info = clone(build_info)
    /\ cso = ClickerStateInit
    /\ duration \in -1..MaxDuration
    /\ strategy \in Strategies
    /\ next_purchase = NoDecision
    /\ ret = NoCall

\* line 137: the clock has passed the horizon
LoopTimeUp ==
    /\ pc = "loop"
    /\ get_time(cso) > duration
    /\ pc' = "rest"
    /\ UNCHANGED <<cso, build_info, info, duration, strategy, ret, next_purchase>>

\* line 143: the strategy returns None
LoopStop ==
    /\ pc = "loop"
    /\ ~(get_time(cso) > duration)
    /\ None \in Ask
    /\ next_purchase' = None
    /\ pc' = "rest"
    /\ UNCHANGED <<cso, build_info, info, duration, strategy, ret>>

\* simulate_clicker waiting for the item before it tests wait_to
LoopTooLate_WaitsFirst ==
    /\ pc = "loop"
    /\ ~(get_time(cso) > duration)
    /\ \E item \in Ask \ {None} :
        LET wait_time == time_until(cso, get_cost(info, item))
            wait_to == get_time(cso) + wait_time
        IN  /\ wait_to > duration
            /\ next_purchase' = item
            /\ cso' = wait(cso, wait_time)
    /\ pc' = "rest"
    /\ UNCHANGED <<build_info, info, duration, strategy, ret>>

\* line 149: the purchase cannot be completed within the horizon
LoopTooLate ==
    /\ pc = "loop"
    /\ ~(get_time(cso) > duration)
    /\ \E item \in Ask \ {None} :
        LET wait_time == time_until(cso, get_cost(info, item))
            wait_to == get_time(cso) + wait_time
        IN  /\ wait_to > duration
            /\ next_purchase' = item
    /\ pc' = "rest"
    /\ UNCHANGED <<cso, build_info, info, duration, strategy, ret>>

\* simulate_clicker buying without the wait of line 156
LoopBuy_SkipsWait ==
    /\ pc = "loop"
    /\ ~(get_time(cso) > duration)
    /\ Len(cso.history) < MaxHist
    /\ \E item \in Ask \ {None} :
        LET wait_time == time_until(cso, get_cost(info, item))
            wait_to == get_time(cso) + wait_time
        IN  /\ ~(wait_to > duration)
            /\ next_purchase' = item
            /\ cso' = buy_item(cso, item, get_cost(info, item), get_cps(info, item))
            /\ info' = update_item(info, item)
    /\ pc' = "loop"
    /\ UNCHANGED <<build_info, duration, strategy, ret>>

\* simulate_clicker working on the caller's catalog object instead of a clone
LoopBuy_NoClone ==
    /\ pc = "loop"
    /\ ~(get_time(cso) > duration)
    /\ Len(cso.history) < MaxHist
    /\ \E item \in Ask \ {None} :
        LET wait_time == time_until(cso, get_cost(info, item))
            wait_to == get_time(cso) + wait_time
            waited == IF wait_time = 0 THEN cso ELSE wait(cso, wait_time)
        IN  /\ ~(wait_to > duration)
            /\ next_purchase' = item
            /\ cso' = buy_item(waited, item, get_cost(info, item), get_cps(info, item))
            /\ info' = update_item(info, item)
            /\ build_info' = update_item(build_info, item)
    /\ pc' = "loop"
    /\ UNCHANGED <<duration, strategy, ret>>

\* lines 152-160: wait, buy the item, update the working catalog
LoopBuy ==
    /\ pc = "loop"
    /\ ~(get_time(cso) > duration)
    /\ Len(cso.history) < MaxHist
    /\ \E item \in Ask \ {None} :
        LET wait_time == time_until(cso, get_cost(info, item))
            wait_to == get_time(cso) + wait_time
            waited == IF wait_time = 0 THEN cso ELSE wait(cso, wait_time)
        IN  /\ ~(wait_to > duration)
            /\ next_purchase' = item
            /\ cso' = buy_item(waited, item, get_cost(info, item), get_cps(info, item))
            /\ info' = update_item(info, item)
    /\ pc' = "loop"
    /\ UNCHANGED <<build_info, duration, strategy, ret>>

\* simulate_clicker waiting the whole duration at line 162
WaitRest_WholeDuration ==
    /\ pc = "rest"
    /\ cso' = wait(cso, duration)
    /\ pc' = "sweep"
    /\ UNCHANGED <<build_info, info, duration, strategy, ret, next_purchase>>

\* simulate_clicker without the wait of line 162
WaitRest_Skipped ==
    /\ pc = "rest"
    /\ pc' = "sweep"
    /\ UNCHANGED <<cso, build_info, info, duration, strategy, ret, next_purchase>>

\* line 162: allow any time left to go past
WaitRest ==
    /\ pc = "rest"
    /\ cso' = wait(cso, duration - get_time(cso))
    /\ pc' = "sweep"
    /\ UNCHANGED <<build_info, info, duration, strategy, ret, next_purchase>>

\* line 167
SweepStop ==
    /\ pc = "sweep"
    /\ None \in Ask
    /\ next_purchase' = None
    /\ pc' = "done"
    /\ UNCHANGED <<cso, build_info, info, duration, strategy, ret>>

\* lines 169-171: the working catalog is left as it is
SweepBuy ==
    /\ pc = "sweep"
    /\ Len(cso.history) < MaxHist
    /\ \E item \in Ask \ {None} :
        /\ get_cookies(cso) >= get_cost(info, item)
        /\ next_purchase' = item
        /\ cso' = buy_item(cso, item, get_cost(info, item), get_cps(info, item))
    /\ pc' = "sweep"
    /\ UNCHANGED <<build_info, info, duration, strategy, ret>>

\* line 173
SweepBreak ==
    /\ pc = "sweep"
    /\ \E item \in Ask \ {None} :
        /\ ~(get_cookies(cso) >= get_cost(info, item))
        /\ next_purchase' = item
    /\ pc' = "done"
    /\ UNCHANGED <<cso, build_info, info, duration, strategy, ret>>

Next ==
    \/ LoopTimeUp
    \/ LoopStop
    \/ LoopTooLate
    \/ LoopBuy
    \/ WaitRest
    \/ SweepStop
    \/ SweepBuy
    \/ SweepBreak

Spec == Init /\ [][Next]_vars

\* The program is sequential: whenever a step is possible it is taken.
FairSpec == Init /\ [][Next]_vars /\ WF_vars(Next)

\* --------------------------------------------- ClickerState driven directly
\* Any sequence of wait and buy_item calls on a fresh ClickerState.
ApiDefaultCatalog ==
    [order |-> <<"Cursor">>,
     cost |-> [i \in {"Cursor"} |-> 1],
     cps |-> [i \in {"Cursor"} |-> 1],
     growth |-> [i \in {"Cursor"} |-> 1]]

ApiInit ==
    /\ pc = "api"
    /\ cso = ClickerStateInit
    /\ build_info = ApiDefaultCatalog
    /\ info = ApiDefaultCatalog
    /\ duration = 0
    /\ strategy = "none"
    /\ next_purchase = NoDecision
    /\ ret = NoCall

ApiWait ==
    /\ pc = "api"
    /\ \E time \in -1..MaxApiWait :
        /\ get_time(cso) + time <= MaxApiTime
        /\ cso' = wait(cso, time)
        /\ ret' = Call("wait", time, 0, FALSE)
    /\ UNCHANGED <<pc, build_info, info, duration, strategy, next_purchase>>

ApiBuy ==
    /\ pc = "api"
    /\ Len(cso.history) < MaxApiHist
    \* buy_item only records item_name in the history (line 121), so one
    \* name stands for all of them
    /\ \E item_name \in {"Cursor"}, cost \in 0..MaxCost, additional_cps \in -MaxCpsLoss..MaxCps :
        /\ cso' = buy_item(cso, item_name, cost, additional_cps)
        /\ ret' = Call("buy_item", cost, 0, FALSE)
    /\ UNCHANGED <<pc, build_info, info, duration, strategy, next_purchase>>

\* line 92 divides by the cps: ZeroDivisionError when it is 0
time_until_raises(s, cookies) == cookies > get_cookies(s) /\ s.cps = 0

ApiTimeUntil ==
    /\ pc = "api"
    /\ \E cookies \in 0..MaxTarget :
        ret' = IF time_until_raises(cso, cookies)
               THEN Call("time_until", cookies, 0, TRUE)
               ELSE Call("time_until", cookies, time_until(cso, cookies), FALSE)
    /\ UNCHANGED <<pc, cso, build_info, info, duration, strategy, next_purchase>>

ApiNext ==
    \/ ApiWait
    \/ ApiBuy
    \/ ApiTimeUntil

ApiSpec == ApiInit /\ [][ApiNext]_vars

\* ------------------------------------------------ strategies called directly
\* One call of a reference strategy on arguments drawn from bounded sets.
StratInit ==
    /\ pc = "strat"
    /\ \E cookies \in 0..MaxCookies, cps \in 1..MaxRate :
        cso = [ClickerStateInit EXCEPT !.current_cookies = cookies,
                                       !.total_cookies = cookies,
                                       !.cps = cps]
    /\ build_info \in Catalogs
    /\ info = build_info
    /\ duration \in 0..MaxDuration
    /\ strategy = "none"
    /\ next_purchase = NoDecision
    /\ ret = NoCall

CallCheap ==
    /\ pc = "strat"
    /\ next_purchase' = strategy_cheap(get_cookies(cso), cso.cps, get_history(cso),
                                       duration - get_time(cso), info)
    /\ pc' = "cheap"
    /\ UNCHANGED <<cso, build_info, info, duration, strategy, ret>>

CallExpensive ==
    /\ pc = "strat"
    /\ next_purchase' = strategy_expensive(get_cookies(cso), cso.cps, get_history(cso),
                                           duration - get_time(cso), info)
    /\ pc' = "expensive"
    /\ UNCHANGED <<cso, build_info, info, duration, strategy, ret>>

CallBest ==
    /\ pc = "strat"
    /\ next_purchase' = strategy_best(get_cookies(cso), cso.cps, get_history(cso),
                                      duration - get_time(cso), info)
    /\ pc' = "best"
    /\ UNCHANGED <<cso, build_info, info, duration, strategy, ret>>

StratNext ==
    \/ CallCheap
    \/ CallExpensive
    \/ CallBest

StratSpec == StratInit /\ [][StratNext]_vars

\* ------------------------------------------------------------------ claims
RECURSIVE Pow(_, _)
Pow(b, n) == IF n = 0 THEN 1 ELSE b * Pow(b, n - 1)

RECURSIVE SumCosts(_)
SumCosts(h) == IF Len(h) = 0 THEN 0 ELSE h[1][3] + SumCosts(Tail(h))

Sentinel == <<0, None, 0, 0>>

\* number of purchases of the item recorded in the history
Purchases(h, item) == Cardinality({ i \in 1..Len(h) : h[i][2] = item })

C3_CostIsClosedForm ==
    \A item \in Range(build_items(info)) :
        get_cost(info, item) =
            get_cost(build_info, item)
                * Pow(build_info.growth[item], Purchases(cso.history, item))

\* C4: with the strategy that always signals stop and a horizon H >= 0 the run
\* returns elapsed time H, balance and lifetime total 1 * H (the initial rate
\* is 1), the rate unchanged and a history holding the sentinel alone.
C4_StopStrategyResult ==
    (strategy = "none" /\ duration >= 0 /\ pc = "done") =>
        /\ cso.current_time = duration
        /\ cso.current_cookies = ClickerStateInit.cps * duration
        /\ cso.total_cookies = ClickerStateInit.cps * duration
        /\ cso.cps = ClickerStateInit.cps
        /\ cso.history = <<Sentinel>>

C4_Witness ==
    /\ strategy = "none"
    /\ duration > 0
    /\ pc = "done"
    /\ cso.current_time = duration

\* the affordability bound of the reference strategies, on the arguments of
\* the call just made: cost <= balance + rate * time_remaining
WithinBudget(item) ==
    get_cost(info, item) <= get_cookies(cso) + cso.cps * (duration - get_time(cso))

Budgeted == { item \in Range(build_items(info)) : WithinBudget(item) }

\* C5: strategy_cheap returns an item of lowest cost among the items whose
\* cost is <= balance + rate * time_remaining, and None exactly when there is
\* no such item.
C5_CheapPicksLowestAffordable ==
    pc = "cheap" =>
        /\ (next_purchase = None) <=> (Budgeted = {})
        /\ next_purchase # None =>
            /\ next_purchase \in Budgeted
            /\ \A item \in Budgeted : get_cost(info, next_purchase) <= get_cost(info, item)

\* C6: strategy_expensive returns an item of highest cost among the items
\* whose cost is <= balance + rate * time_remaining, and None exactly when
\* there is no such item.
C6_ExpensivePicksHighestAffordable ==
    pc = "expensive" =>
        /\ (next_purchase = None) <=> (Budgeted = {})
        /\ next_purchase # None =>
            /\ next_purchase \in Budgeted
            /\ \A item \in Budgeted : get_cost(info, next_purchase) >= get_cost(info, item)

C6_Witness ==
    /\ pc = "expensive"
    /\ next_purchase # None
    /\ \E item \in Budgeted : get_cost(info, item) < get_cost(info, next_purchase)
    /\ get_cookies(cso) > 0

\* a catalog of the single item Cursor, horizon 0, the strategy that always
\* picks Cursor
SingleItemAtHorizonZero ==
    /\ strategy = "cursor_broken"
    /\ build_items(build_info) = <<"Cursor">>
    /\ duration = 0

\* C7: single item of base cost > 0, horizon 0, always-pick strategy: no
\* purchase is made, the loop head is never reached again after the first
\* strategy call, and time, balance, lifetime total and history stay as
\* constructed up to the return.
C7_PositiveCostNoPurchase ==
    (SingleItemAtHorizonZero /\ get_cost(build_info, "Cursor") > 0) =>
        /\ cso = ClickerStateInit
        /\ info = build_info
        /\ pc = "loop" => next_purchase = NoDecision

C7_Witness ==
    /\ SingleItemAtHorizonZero
    /\ get_cost(build_info, "Cursor") > 0
    /\ pc = "done"
    /\ next_purchase = "Cursor"

\* C8: single item of base cost 0, horizon 0, always-pick strategy: the
\* purchase recorded in the history is made by the terminal sweep, so a
\* history holding a purchase is only seen in the sweep or after it.
C8_ZeroCostBoughtBySweep ==
    (SingleItemAtHorizonZero /\ get_cost(build_info, "Cursor") = 0) =>
        (Len(cso.history) > 1 => pc \in {"sweep", "done"})

\* C9: the history is ordered by non-decreasing time, starts with the
\* sentinel, and only ever grows at its end.
C9_HistoryOrderedAppendOnly ==
    /\ [](/\ cso.history[1] = Sentinel
          /\ \A i \in 1..(Len(cso.history) - 1) :
                cso.history[i][1] <= cso.history[i + 1][1])
    /\ [][/\ Len(cso'.history) >= Len(cso.history)
          /\ SubSeq(cso'.history, 1, Len(cso.history)) = cso.history]_vars

C9_Witness ==
    /\ pc = "api"
    /\ Len(cso.history) >= 3
    /\ cso.history[2][1] < cso.history[3][1]

\* C10: the lifetime total is the balance plus the costs of all history
\* events, and so never below the balance.
C10_TotalIsBalancePlusSpent ==
    /\ cso.total_cookies = cso.current_cookies + SumCosts(cso.history)
    /\ cso.total_cookies >= cso.current_cookies

C10_Witness ==
    /\ pc = "api"
    /\ Len(cso.history) >= 3
    /\ SumCosts(cso.history) >= 2
    /\ cso.current_cookies > 0

\* C11: with a rate > 0, time_until returns 0 for a target within the balance
\* and otherwise the smallest non-negative integer t with
\* balance + rate * t >= target; the call leaves the state as it was.
C11_TimeUntilIsLeastWait ==
    /\ []((ret.op = "time_until" /\ cso.cps > 0) =>
            /\ ~ret.raised
            /\ ret.arg <= get_cookies(cso) => ret.value = 0
            /\ ret.arg > get_cookies(cso) =>
                /\ ret.value >= 0
                /\ get_cookies(cso) + cso.cps * ret.value >= ret.arg
                /\ \A t \in 0..(ret.value - 1) : get_cookies(cso) + cso.cps * t < ret.arg)
    /\ [][ret'.op = "time_until" => cso' = cso]_vars

C11_Witness ==
    /\ ret.op = "time_until"
    /\ cso.cps > 1
    /\ ret.value > 1
    /\ get_cookies(cso) + cso.cps * ret.value > ret.arg

\* C12: no step of a run changes the catalog passed in by the caller: the
\* cost and cps of each of its items stay what they were before the run;
\* purchases change the working clone only.
C12_CallerCatalogUntouched == [][build_info' = build_info]_vars

C12_Witness ==
    /\ pc = "done"
    /\ \E item \in Range(build_items(info)) :
        get_cost(info, item) > get_cost(build_info, item)

\* C13: a buy_item call whose cost exceeds the balance changes nothing
\* (balance, rate, time, lifetime total and history stay as they were) and
\* raises no error.
C13_UnaffordableBuyIsNoOp ==
    [][(ret'.op = "buy_item" /\ ret'.arg > get_cookies(cso)) =>
            (cso' = cso /\ ~ret'.raised)]_vars

\* the last call was a refused buy_item in a state that has cookies, and the
\* last history entry is from an earlier time
C13_Witness ==
    /\ ret.op = "buy_item"
    /\ ret.arg > get_cookies(cso)
    /\ get_cookies(cso) > 0
    /\ cso.history[Len(cso.history)][1] < get_time(cso)

\* C14: a wait call with a time <= 0 leaves balance, rate, time, lifetime
\* total and history unchanged.
C14_NonPositiveWaitIsNoOp ==
    [][(ret'.op = "wait" /\ ret'.arg <= 0) => cso' = cso]_vars

C14_Witness ==
    /\ ret.op = "wait"
    /\ ret.arg < 0
    /\ get_time(cso) > 0
    /\ get_cookies(cso) > 0

\* C15: a time_until call with a target above the balance while the rate is
\* <= 0 fails with an error; it never returns a number as the wait.
C15_NonPositiveRateRaises ==
    (ret.op = "time_until" /\ ret.arg > get_cookies(cso) /\ cso.cps <= 0) => ret.raised

\* the wait for the item, started now, would end after the horizon
WaitExceedsHorizon(item) ==
    get_time(cso) + time_until(cso, get_cost(info, item)) > duration

\* C16: in the purchase-and-wait phase, a step in which the strategy names an
\* item whose wait would end after the horizon ends the phase as a stop does:
\* no error, and balance, rate, time, lifetime total, history and both
\* catalogs are unchanged by the step.
C16_TooLateActsAsStop ==
    [][(/\ pc = "loop"
        /\ ~(get_time(cso) > duration)
        /\ next_purchase' \in Range(build_items(info))
        /\ WaitExceedsHorizon(next_purchase')) =>
            (/\ pc' = "rest"
             /\ cso' = cso
             /\ info' = info
             /\ build_info' = build_info)]_vars

C16_Witness ==
    /\ pc = "rest"
    /\ next_purchase \in Range(build_items(info))
    /\ ~(get_time(cso) > duration)
    /\ WaitExceedsHorizon(next_purchase)
    /\ Len(cso.history) > 1
    /\ get_cookies(cso) > 0

AllCostsPositive ==
    \A item \in Range(build_items(build_info)) : get_cost(build_info, item) > 0

\* C17 as claimed: every iteration of the purchase-and-wait loop that does
\* not leave the loop strictly increases the elapsed time. Stated for catalogs
\* of strictly positive costs, where it already fails.
C17_IterationAdvancesClock ==
    [][(AllCostsPositive /\ pc = "loop" /\ pc' = "loop") =>
            get_time(cso') > get_time(cso)]_vars

\* C17 as amended: an iteration that does not leave the loop strictly
\* increases the elapsed time exactly when the cost of the chosen item
\* exceeds the balance, and leaves it unchanged when the item is affordable
\* at once.
C17_ClockAdvancesIffMustWait ==
    [][(pc = "loop" /\ pc' = "loop") =>
            IF get_cost(info, next_purchase') > get_cookies(cso)
            THEN get_time(cso') > get_time(cso)
            ELSE get_time(cso') = get_time(cso)]_vars

\* two purchases of positive cost recorded at the same time by the loop
C17_Witness ==
    /\ AllCostsPositive
    /\ pc = "loop"
    /\ Len(cso.history) >= 3
    /\ cso.history[Len(cso.history)][1] = cso.history[Len(cso.history) - 1][1]
    /\ cso.history[Len(cso.history)][1] > cso.history[Len(cso.history) - 2][1]

\* C18: for a horizon H >= 0, from the moment the remaining time has been
\* advanced the elapsed time is H and stays H up to the return; every history
\* event has a time <= H; every purchase of the sweep is stamped with H; the
\* balance does not grow during the sweep.
C18_ClockStopsAtHorizon ==
    /\ [](duration >= 0 =>
            /\ pc \in {"sweep", "done"} => get_time(cso) = duration
            /\ \A i \in 1..Len(cso.history) : cso.history[i][1] <= duration)
    /\ [][(duration >= 0 /\ pc = "sweep") =>
            /\ get_time(cso') = duration
            /\ get_cookies(cso') <= get_cookies(cso)
            /\ Len(cso'.history) > Len(cso.history) =>
                cso'.history[Len(cso'.history)][1] = duration]_vars

\* the run has returned after a purchase in the loop before the horizon and a
\* purchase in the sweep (which the working catalog does not reflect)
C18_Witness ==
    /\ pc = "done"
    /\ duration > 0
    /\ Len(cso.history) >= 3
    /\ cso.history[2][1] < duration
    /\ cso.history[Len(cso.history)][1] = duration
    /\ info # build_info
    /\ ~C3_CostIsClosedForm

\* C19: the driver never issues a purchase the balance cannot pay: every
\* buy_item call of the purchase-and-wait phase (after its wait) and of the
\* sweep appends the history event of the chosen item at its current cost, and
\* the working catalog changes only in a step that records a purchase.
C19_DriverPurchasesAreFunded ==
    [][/\ ((pc = "loop" /\ pc' = "loop") \/ (pc = "sweep" /\ pc' = "sweep")) =>
            /\ Len(cso'.history) = Len(cso.history) + 1
            /\ cso'.history[Len(cso'.history)] =
                <<get_time(cso'), next_purchase', get_cost(info, next_purchase'),
                  cso'.total_cookies>>
            /\ get_cookies(cso') >= 0
       /\ info' # info => Len(cso'.history) = Len(cso.history) + 1]_vars

\* a purchase made by the loop after a wait, and one made by the sweep
C19_Witness ==
    /\ pc = "sweep"
    /\ Len(cso.history) >= 3
    /\ cso.history[2][1] > 0
    /\ cso.history[2][3] > 0
    /\ next_purchase \in Range(build_items(info))
    /\ ~C3_CostIsClosedForm

\* C20 as claimed: after any sequence of wait and buy_item calls with
\* non-negative costs and any durations the balance is >= 0.
C20_BalanceNonNegative == get_cookies(cso) >= 0

\* C20 as amended: after any such sequence in which the rate has never been
\* negative the balance is >= 0.
C20_BalanceNonNegativeWhileRateIs ==
    [](cso.cps >= 0) => [](get_cookies(cso) >= 0)

\* purchases of positive cost that used the balance up to the last cookie
C20_Witness ==
    /\ pc = "api"
    /\ cso.cps > 1
    /\ SumCosts(cso.history) >= 2
    /\ get_cookies(cso) = 0
    /\ get_time(cso) > 1

====
